---- MODULE Spec2Model ----
(***************************************************************************)
(* A model of emu (src/main.rs): the ELF header decoder, the program       *)
(* header scan, the extraction of the interpreter path and the dispatch    *)
(* to qemu.                                                                *)
(*                                                                         *)
(* Numbers.  u16 and u32 values are the integers themselves.  A u64 value  *)
(* x is represented by the integer r with r = x when x < 2^31 and          *)
(* r = x - 2^64 when x > 2^64 - 2^31 (the inputs keep every u64 in one of  *)
(* these two windows); wrapping u64 arithmetic is then integer arithmetic  *)
(* on the representatives, and ULess is the unsigned order.                *)
(***************************************************************************)
EXTENDS Integers, Sequences, FiniteSets, TLC

\* ---------------------------------------------------------------- bounds
\* the largest e_phnum of an input file
MaxPhnum == 3
\* the largest number of bytes of a file without the ELF magic
MaxShortLen == 17

\* ------------------------------------------------------ program constants
ELF_MAGIC == <<127, 69, 76, 70>>

ELFClass == (1 :> "ELFCLASS32") @@ (2 :> "ELFCLASS64")

Endian == (1 :> "Little") @@ (2 :> "Big")

Machine ==
    (3 :> "X86") @@ (21 :> "PPC64") @@ (22 :> "S390") @@ (40 :> "ARM") @@
    (62 :> "X86_64") @@ (183 :> "AARCH64") @@ (243 :> "RISCV")

PT_LOAD == 1
PT_INTERP == 3
PF_X == 1
PF_R == 4
PF_RX == PF_R + PF_X

\* exit status of a Rust process that panicked
PanicStatus == 101

\* ---------------------------------------------------------------- numbers
TwoTo16 == 65536

Reverse(s) == [k \in 1..Len(s) |-> s[Len(s) + 1 - k]]

RECURSIVE HornerLE(_)
HornerLE(s) == IF s = <<>> THEN 0 ELSE Head(s) + 256 * HornerLE(Tail(s))

\* <inttype>::from_le_bytes : 2 and 4 bytes give the value, 8 bytes give the
\* representative of the u64 (negative when the top bit is set)
FromLeBytes(s) ==
    IF Len(s) = 8 /\ s[8] >= 128
    THEN HornerLE([k \in 1..8 |-> s[k] - 255]) - 1
    ELSE HornerLE(s)

\* the unpack! macro
unpack(bytes, endian) ==
    IF endian = "Little" THEN FromLeBytes(bytes) ELSE FromLeBytes(Reverse(bytes))

\* unsigned order of two u64 representatives
ULess(a, b) == IF (a < 0) = (b < 0) THEN a < b ELSE b < 0

\* ------------------------------------------------------------------ files
\* A file is its length and its non-zero bytes; every other byte below the
\* length is zero.
ByteAt(f, o) == IF o \in DOMAIN f.bytes THEN f.bytes[o] ELSE 0

\* Read::read_exact at position p: n bytes, or an error if the file ends first
ReadExact(f, p, n) ==
    IF p >= 0 /\ p + n <= f.len
    THEN [ok |-> TRUE, bytes |-> [k \in 1..n |-> ByteAt(f, p + k - 1)]]
    ELSE [ok |-> FALSE, bytes |-> <<>>]

Min(a, b) == IF a < b THEN a ELSE b

\* Read::take(n).read_to_end at position p: the bytes up to n or the end of
\* the file, whichever comes first; never an error on a regular file
TakeReadToEnd(f, p, n) ==
    LET avail == IF p < f.len THEN f.len - p ELSE 0
        got   == IF n < 0 THEN avail ELSE Min(n, avail)
    IN [k \in 1..got |-> ByteAt(f, p + k - 1)]

\* str::from_utf8 accepts exactly the well-formed UTF-8 sequences
RECURSIVE ValidUtf8(_)
Cont(b) == b >= 128 /\ b <= 191
ValidUtf8(s) ==
    IF s = <<>> THEN TRUE
    ELSE LET b == s[1]
             n == Len(s)
         IN  IF b <= 127 THEN ValidUtf8(Tail(s))
             ELSE IF b >= 194 /\ b <= 223
                  THEN n >= 2 /\ Cont(s[2]) /\ ValidUtf8(SubSeq(s, 3, n))
             ELSE IF b >= 224 /\ b <= 239
                  THEN /\ n >= 3
                       /\ Cont(s[2]) /\ Cont(s[3])
                       /\ (b = 224 => s[2] >= 160)
                       /\ (b = 237 => s[2] <= 159)
                       /\ ValidUtf8(SubSeq(s, 4, n))
             ELSE IF b >= 240 /\ b <= 244
                  THEN /\ n >= 4
                       /\ Cont(s[2]) /\ Cont(s[3]) /\ Cont(s[4])
                       /\ (b = 240 => s[2] >= 144)
                       /\ (b = 244 => s[2] <= 143)
                       /\ ValidUtf8(SubSeq(s, 5, n))
             ELSE FALSE

\* ----------------------------------------------------------- input files
\* The encoders below build the input files of the model, byte for byte as
\* elf(5) lays them out (the struct comments of setup_executable).

\* the w bytes of a value, least significant first
LeBytes(r, w) ==
    [k \in 1..w |->
        IF r >= 0
        THEN IF k > 4 THEN 0 ELSE (r \div (256 ^ (k - 1))) % 256
        ELSE IF k > 4 THEN 255 ELSE 255 - (((0 - r - 1) \div (256 ^ (k - 1))) % 256)]

pack(r, w, endian) ==
    IF endian = "Big" THEN Reverse(LeBytes(r, w)) ELSE LeBytes(r, w)

\* the layout an input file is written in (bytes 4 and 5 may be invalid)
LayoutClass(classByte) == IF classByte = 1 THEN "ELFCLASS32" ELSE "ELFCLASS64"
LayoutEndian(endianByte) == IF endianByte = 2 THEN "Big" ELSE "Little"

EhdrSize(class) == IF class = "ELFCLASS32" THEN 52 ELSE 64
PhdrSize(class) == IF class = "ELFCLASS32" THEN 32 ELSE 56

\* ElfN_Ehdr
Ehdr(classByte, endianByte, machine, phoff, phentsize, phnum) ==
    LET c == LayoutClass(classByte)
        e == LayoutEndian(endianByte)
        a == IF c = "ELFCLASS32" THEN 4 ELSE 8
    IN  ELF_MAGIC \o <<classByte, endianByte, 1, 0, 0, 0, 0, 0, 0, 0, 0, 0>>
        \o pack(2, 2, e)            \* e_type
        \o pack(machine, 2, e)      \* e_machine
        \o pack(1, 4, e)            \* e_version
        \o pack(0, a, e)            \* e_entry
        \o pack(phoff, a, e)        \* e_phoff
        \o pack(0, a, e)            \* e_shoff
        \o pack(0, 4, e)            \* e_flags
        \o pack(EhdrSize(c), 2, e)  \* e_ehsize
        \o pack(phentsize, 2, e)    \* e_phentsize
        \o pack(phnum, 2, e)        \* e_phnum
        \o pack(0, 2, e) \o pack(0, 2, e) \o pack(0, 2, e)

\* Elf32_Phdr and Elf64_Phdr
Phdr(class, e, p) ==
    IF class = "ELFCLASS32"
    THEN pack(p.type, 4, e) \o pack(p.offset, 4, e) \o pack(p.vaddr, 4, e)
         \o pack(p.paddr, 4, e) \o pack(p.filesz, 4, e) \o pack(p.memsz, 4, e)
         \o pack(p.flags, 4, e) \o pack(p.align, 4, e)
    ELSE pack(p.type, 4, e) \o pack(p.flags, 4, e) \o pack(p.offset, 8, e)
         \o pack(p.vaddr, 8, e) \o pack(p.paddr, 8, e) \o pack(p.filesz, 8, e)
         \o pack(p.memsz, 8, e) \o pack(p.align, 8, e)

\* the bytes s written at offset o
At(o, s) == [x \in o..(o + Len(s) - 1) |-> s[x - o + 1]]

NonZero(f) == [x \in {y \in DOMAIN f : f[y] # 0} |-> f[x]]

RECURSIVE TableImage(_, _, _, _, _)
TableImage(class, e, phoff, phentsize, table) ==
    IF table = <<>> THEN <<>>
    ELSE At(phoff, Phdr(class, e, Head(table)))
         @@ TableImage(class, e, phoff + phentsize, phentsize, Tail(table))

\* where the input files keep the interpreter path: right after a table of
\* MaxPhnum entries of the natural size
StrOff(class) == EhdrSize(class) + MaxPhnum * PhdrSize(class)

\* "/ld" and a byte string that is not UTF-8, both null terminated
GoodPath == <<47, 108, 100, 0>>
BadPath == <<47, 255, 100, 0>>

\* the kinds of program header entries of the input files; S is where the
\* file keeps the interpreter path
Seg(class, kind) ==
    LET S  == StrOff(class)
        hi == IF class = "ELFCLASS32" THEN 2147483647 ELSE 0 - 1
        z  == [type |-> 0, flags |-> 0, offset |-> 0, vaddr |-> 0, paddr |-> 0,
               filesz |-> 0, memsz |-> 0, align |-> 0]
        ld(fl, va) == [z EXCEPT !.type = 1, !.flags = fl, !.vaddr = va,
                                !.paddr = va, !.filesz = 16, !.memsz = 16]
        in(va, fs, ms) == [z EXCEPT !.type = 3, !.flags = 4, !.offset = S,
                                    !.vaddr = va, !.paddr = 7,
                                    !.filesz = fs, !.memsz = ms]
    IN  CASE kind = "null"      -> z
          [] kind = "loadR"     -> ld(4, 0)
          [] kind = "loadRX"    -> ld(5, 2 * S)
          [] kind = "loadRW"    -> ld(6, 2 * S)
          [] kind = "loadRWX"   -> ld(7, 2 * S)
          [] kind = "loadHi"    -> ld(5, hi)
          [] kind = "interp"    -> in(S, 4, 4)
          [] kind = "interpUp"  -> in(3 * S, 4, 4)
          [] kind = "interpMem" -> in(S, 4, 6)

Kinds == {"null", "loadR", "loadRX", "loadRW", "loadHi",
          "interp", "interpUp", "interpMem"}

\* the kinds of the files whose entries are far apart
FewKinds == {"null", "loadRX", "loadRWX", "interpUp"}

\* an ELF file: header, table of the given kinds, interpreter path, cut at len
ElfFile(classByte, endianByte, machine, phentsize, kinds, path, len) ==
    LET c == LayoutClass(classByte)
        e == LayoutEndian(endianByte)
        img == At(0, Ehdr(classByte, endianByte, machine, EhdrSize(c),
                          phentsize, Len(kinds)))
               @@ TableImage(c, e, EhdrSize(c), phentsize,
                             [k \in 1..Len(kinds) |-> Seg(c, kinds[k])])
               @@ At(StrOff(c), path)
    IN  [exists |-> TRUE, len |-> len,
         bytes |-> NonZero([x \in {y \in DOMAIN img : y < len} |-> img[x]])]

\* --------------------------------------------------------- setup_executable
\* DecodeIdent with the class and byte order tested before the magic
DecodeIdentMagicLast(f) ==
    LET id == ReadExact(f, 0, 16)
        ok(kind) == [err |-> kind, class |-> "", endian |-> ""]
    IN  IF ~f.exists THEN ok("IOError")
        ELSE IF ~id.ok THEN ok("IOError")
        ELSE IF id.bytes[5] \notin DOMAIN ELFClass THEN ok("InvalidClass")
        ELSE IF id.bytes[6] \notin DOMAIN Endian THEN ok("InvalidEndian")
        ELSE IF SubSeq(id.bytes, 1, 4) # ELF_MAGIC THEN ok("NotELF")
        ELSE [err |-> "", class |-> ELFClass[id.bytes[5]],
              endian |-> Endian[id.bytes[6]]]

\* File::open, the read of e_ident and its three checks
DecodeIdent(f) ==
    LET id == ReadExact(f, 0, 16)
        ok(kind) == [err |-> kind, class |-> "", endian |-> ""]
    IN  IF ~f.exists THEN ok("IOError")
        ELSE IF ~id.ok THEN ok("IOError")
        ELSE IF SubSeq(id.bytes, 1, 4) # ELF_MAGIC THEN ok("NotELF")
        ELSE IF id.bytes[5] \notin DOMAIN ELFClass THEN ok("InvalidClass")
        ELSE IF id.bytes[6] \notin DOMAIN Endian THEN ok("InvalidEndian")
        ELSE [err |-> "", class |-> ELFClass[id.bytes[5]],
              endian |-> Endian[id.bytes[6]]]

\* e_machine, e_phoff, e_phentsize and e_phnum, then the seek to e_phoff
DecodeHeader(f, class, endian) ==
    LET w      == IF class = "ELFCLASS32" THEN 4 ELSE 8
        pm     == 16 + 2                       \* skip e_type
        m      == ReadExact(f, pm, 2)
        mv     == unpack(m.bytes, endian)
        po     == (pm + 2) + (4 + w)           \* skip e_version + e_entry
        o      == ReadExact(f, po, w)
        ps     == (po + w) + (w + 4 + 2)       \* skip e_shoff + e_flags + e_ehsize
        sz     == ReadExact(f, ps, 2)
        n      == ReadExact(f, ps + 2, 2)
        no(kind) == [err |-> kind, machine |-> "", machine_value |-> 0,
                     phoff |-> 0, phentsize |-> 0, phnum |-> 0]
    IN  IF ~m.ok THEN no("IOError")
        ELSE IF mv \notin DOMAIN Machine
             THEN [no("UnsupportedMachine") EXCEPT !.machine_value = mv]
        ELSE IF ~o.ok \/ ~sz.ok \/ ~n.ok THEN no("IOError")
        ELSE IF unpack(o.bytes, endian) < 0 THEN no("IOError")
        ELSE [err |-> "", machine |-> Machine[mv], machine_value |-> mv,
              phoff |-> unpack(o.bytes, endian),
              phentsize |-> unpack(sz.bytes, endian),
              phnum |-> unpack(n.bytes, endian)]

\* where the size of a PT_INTERP entry is read, relative to the entry: the
\* 32-bit branch skips 4 + 4 bytes after p_vaddr, the 64-bit branch skips 8
InterpSizeAt(class) ==
    IF class = "ELFCLASS32" THEN (4 + 4 + 4) + (4 + 4) ELSE (4 + (4 + 8) + 8) + 8

\* whether a PT_LOAD entry with these flags ends the scan
Qualifies(load_flags) == load_flags = PF_R \/ load_flags = PF_RX

\* one iteration of the loop over the program headers, up to and excluding
\* "i += 1": the entry at position p
ScanEntry(f, class, endian, p) ==
    LET t   == ReadExact(f, p, 4)
        ty  == unpack(t.bytes, endian)
        \* PT_LOAD
        lv  == IF class = "ELFCLASS32" THEN ReadExact(f, (p + 4) + 4, 4)
                                       ELSE ReadExact(f, ((p + 4) + 4) + 8, 8)
        lf  == IF class = "ELFCLASS32" THEN ReadExact(f, ((p + 4) + 4 + 4) + (4 + 4 + 4), 4)
                                       ELSE ReadExact(f, p + 4, 4)
        \* PT_INTERP
        iv  == IF class = "ELFCLASS32" THEN ReadExact(f, (p + 4) + 4, 4)
                                       ELSE ReadExact(f, (p + 4) + (4 + 8), 8)
        isz == ReadExact(f, p + InterpSizeAt(class),
                         IF class = "ELFCLASS32" THEN 4 ELSE 8)
        \* the position after the last read of the PT_LOAD branch
        le  == IF class = "ELFCLASS32" THEN (((p + 4) + 4 + 4) + (4 + 4 + 4)) + 4
                                       ELSE (((p + 4) + 4) + 8) + 8
        r(kind, what) == [err |-> kind, what |-> what, load |-> 0,
                          vaddr |-> 0, size |-> 0, pos |-> le]
    IN  IF ~t.ok THEN r("IOError", "")
        ELSE IF ty = PT_LOAD
             THEN IF ~lv.ok \/ ~lf.ok THEN r("IOError", "")
                  ELSE IF Qualifies(unpack(lf.bytes, endian))
                       THEN [r("", "break") EXCEPT !.load = unpack(lv.bytes, endian)]
                       ELSE r("", "skip")
        ELSE IF ty = PT_INTERP
             THEN IF ~iv.ok \/ ~isz.ok THEN r("IOError", "")
                  ELSE [r("", "interp") EXCEPT !.vaddr = unpack(iv.bytes, endian),
                                               !.size = unpack(isz.bytes, endian)]
        ELSE r("", "skip")

\* "i * pheader_size" is a product of two u16: a build with overflow checks
\* panics when it exceeds 16 bits, a build without them keeps the low 16 bits
EntryProduct(b, k, pheader_size) ==
    IF k * pheader_size < TwoTo16 THEN [err |-> "", val |-> k * pheader_size]
    ELSE IF b = "debug" THEN [err |-> "MultiplyOverflow", val |-> 0]
    ELSE [err |-> "", val |-> (k * pheader_size) % TwoTo16]

\* "virtual_address - load_address" on u64: a build with overflow checks
\* panics on underflow, a build without them wraps; a wrapped offset above
\* i64::MAX is refused by the seek
InterpOffset(b, va, la) ==
    IF ~ULess(va, la) THEN [err |-> "", wrapped |-> FALSE, off |-> va - la]
    ELSE IF b = "debug" THEN [err |-> "SubtractOverflow", wrapped |-> FALSE, off |-> 0]
    ELSE IF va - la < 0 THEN [err |-> "IOError", wrapped |-> TRUE, off |-> va - la]
    ELSE [err |-> "", wrapped |-> TRUE, off |-> va - la]

\* the block "if interpreter_size != 0": the decrement, the seek, the read
\* and the decoding of the loader string; p is the position of f before
ReadLoader(f, b, p, va, la, size) ==
    LET o  == InterpOffset(b, va, la)
        bs == TakeReadToEnd(f, o.off, size - 1)
        r(kind, q) == [err |-> kind, wrapped |-> o.wrapped, pos |-> q,
                       size |-> size - 1, loader |-> <<>>]
    IN  IF o.err # "" THEN r(o.err, p)
        ELSE IF size - 1 < 0 THEN r("CapacityOverflow", o.off)
        ELSE IF ~ValidUtf8(bs) THEN r("InvalidLoaderEncoding", o.off + Len(bs))
        ELSE [r("", o.off + Len(bs)) EXCEPT !.loader = bs]

\* ----------------------------------------------------------- run_executable
\* QemuSuffix with the two arms of the PPC64 match exchanged
QemuSuffixSwapped(machine, class, endian) ==
    CASE machine = "AARCH64" -> "aarch64"
      [] machine = "ARM"     -> "arm"
      [] machine = "PPC64"   -> IF endian = "Big" THEN "ppc64le" ELSE "ppc64"
      [] machine = "RISCV"   -> IF class = "ELFCLASS32" THEN "riscv32" ELSE "riscv64"
      [] machine = "S390"    -> IF class = "ELFCLASS32" THEN "s390" ELSE "s390x"
      [] machine = "X86"     -> "i386"
      [] machine = "X86_64"  -> "x86_64"

\* the match on executable.machine that picks the qemu binary
QemuSuffix(machine, class, endian) ==
    CASE machine = "AARCH64" -> "aarch64"
      [] machine = "ARM"     -> "arm"
      [] machine = "PPC64"   -> IF endian = "Big" THEN "ppc64" ELSE "ppc64le"
      [] machine = "RISCV"   -> IF class = "ELFCLASS32" THEN "riscv32" ELSE "riscv64"
      [] machine = "S390"    -> IF class = "ELFCLASS32" THEN "s390" ELSE "s390x"
      [] machine = "X86"     -> "i386"
      [] machine = "X86_64"  -> "x86_64"

\* the suffix of the library directories given to --library-path
LibSuffix(class) == IF class = "ELFCLASS64" THEN "64" ELSE ""

\* LoaderChecks without the test "!executable.loader.is_empty()" of the
\* branch that has no sysroot
LoaderChecksUnguarded(root, loader) ==
    IF root # ""
    THEN IF loader = <<>> THEN <<>> ELSE << <<root, "/", loader>> >>
    ELSE << <<"", "", loader>> >>

\* the loader paths whose existence run_executable tests, in order
LoaderChecks(root, loader) ==
    IF root # ""
    THEN IF loader = <<>> THEN <<>> ELSE << <<root, "/", loader>> >>
    ELSE IF loader # <<>> THEN << <<"", "", loader>> >> ELSE <<>>

\* run_executable up to and including Command::status: the panic it ends in
\* ("" if none) and the command it runs (<<>> if none)
Dispatch(class, endian, machine, loader, argv, root, static_exists, loader_exists, spawn_ok) ==
    LET qemu_suffix   == QemuSuffix(machine, class, endian)
        static_suffix == IF static_exists THEN "-static" ELSE ""
        probes == LoaderChecks(root, loader)
        cmd == [qemu_suffix |-> qemu_suffix, static_suffix |-> static_suffix,
                sysroot |-> root,
                loader |-> IF root # "" THEN loader ELSE <<>>,
                lib_suffix |-> IF root # "" THEN LibSuffix(class) ELSE "",
                args |-> Tail(argv)]
        r(kind, c) == [err |-> kind, probes |-> probes, command |-> c]
    IN  IF root # "" /\ loader = <<>> THEN r("MissingLoaderWithSysroot", <<>>)
        ELSE IF probes # <<>> /\ ~loader_exists
             THEN r(IF root # "" THEN "LoaderNotFoundInSysroot" ELSE "LoaderNotFound", <<>>)
        ELSE IF ~spawn_ok THEN r("EmulatorSpawnFailed", <<cmd>>)
        ELSE r("", <<cmd>>)

\* ------------------------------------------------------------------ inputs
Builds == {"debug", "release"}
ArgLists == {<<"emu">>, <<"emu", "prog", "-x">>}
Sysroots == {"", "/sysroot"}
ChildStatuses == {0, 1}

RECURSIVE Tables(_, _)
Tables(n, K) ==
    IF n = 0 THEN {<<>>}
    ELSE Tables(n - 1, K) \cup
         {Append(t, k) : t \in {u \in Tables(n - 1, K) : Len(u) = n - 1}, k \in K}

FullLen(c, phentsize, n) ==
    LET tableEnd == IF n = 0 THEN 0 ELSE EhdrSize(c) + (n - 1) * phentsize + PhdrSize(c)
        strEnd   == StrOff(c) + 2 * Len(GoodPath)
    IN  IF tableEnd > strEnd THEN tableEnd ELSE strEnd

\* ELF files of every table, class and byte order, entries of the natural size
ScanFiles ==
    {ElfFile(cb, eb, IF cb = 1 THEN 3 ELSE 62, PhdrSize(LayoutClass(cb)), t,
             GoodPath, FullLen(LayoutClass(cb), PhdrSize(LayoutClass(cb)), Len(t))) :
        cb \in {1, 2}, eb \in {1, 2}, t \in Tables(MaxPhnum, Kinds)}

\* ELF files whose entries are half of 2^16 bytes apart
WideFiles ==
    {ElfFile(cb, eb, IF cb = 1 THEN 3 ELSE 62, TwoTo16 \div 2, t,
             GoodPath, FullLen(LayoutClass(cb), TwoTo16 \div 2, Len(t))) :
        cb \in {1, 2}, eb \in {1, 2}, t \in Tables(MaxPhnum, FewKinds)}

\* ELF files of every class byte, byte order byte and machine
MachineFiles ==
    {ElfFile(cb, eb, m, PhdrSize(LayoutClass(cb)), t, GoodPath,
             FullLen(LayoutClass(cb), PhdrSize(LayoutClass(cb)), Len(t))) :
        cb \in 0..3, eb \in 0..3, m \in DOMAIN Machine \cup {9999},
        t \in {<<>>, <<"interp">>}}

\* ELF files cut at every length, with a good and a bad interpreter path
CutFiles ==
    UNION {{ElfFile(cb, eb, IF cb = 1 THEN 3 ELSE 62, PhdrSize(LayoutClass(cb)),
                    <<"interp", "loadR">>, path, len) :
                path \in {GoodPath, BadPath},
                len \in 0..FullLen(LayoutClass(cb), PhdrSize(LayoutClass(cb)), 2)} :
           cb \in {1, 2}, eb \in {1, 2}}

\* files without the ELF magic: an ELF file with one byte of the magic
\* replaced, whole or cut to at most MaxShortLen bytes
NonElfFiles ==
    UNION {LET g == ElfFile(cb, 1, 62, 56, <<"interp">>, GoodPath,
                            FullLen("ELFCLASS64", 56, 1))
           IN  {[exists |-> TRUE, len |-> len,
                 bytes |-> NonZero([x \in {y \in DOMAIN g.bytes : y < len} |->
                                       IF x = j THEN v ELSE g.bytes[x]])] :
                   j \in 0..3, v \in {35}, len \in (0..MaxShortLen) \cup {g.len}} :
           cb \in {2, 3}}

NoFile == [exists |-> FALSE, len |-> 0, bytes |-> <<>>]

Files == ScanFiles \cup WideFiles \cup MachineFiles \cup CutFiles \cup NonElfFiles \cup {NoFile}

\* ------------------------------------------------------------------- state
VARIABLES
    build,             \* whether integer overflow checks are compiled in
    pc,                \* where the program is
    args,              \* main: args
    file,              \* f: the open file, NoFile when there is none
    pos,               \* the position of f
    exec_class, exec_endian, exec_machine,
    pheader_offset, pheader_size, ph_num,
    i, load_address, virtual_address, interpreter_size, exec_loader,
    sysroot,           \* run_executable: sysroot
    probes,            \* the loader paths tested for existence so far
    command,           \* the command given to Command::status, <<>> if none
    child_status,      \* the exit status of qemu, -1 before it exits
    error,             \* the panic that ended the program, "" if none
    exit_status,       \* the exit status of the program, -1 while it runs
    p_type_reads,      \* the file offsets p_type was read from, in order
    interp_at,         \* the file offset of the PT_INTERP entry recorded last
    wrapped            \* whether virtual_address - load_address wrapped

ident == <<exec_class, exec_endian>>
header == <<exec_machine, pheader_offset, pheader_size, ph_num>>
scan == <<i, load_address, virtual_address, interpreter_size,
          p_type_reads, interp_at>>
run == <<sysroot, probes, command, child_status>>

vars == <<build, pc, args, file, pos, ident, header, scan, exec_loader,
          wrapped, run, error, exit_status>>

Init ==
    /\ build \in Builds
    /\ pc = "main"
    /\ args = <<>>
    /\ file = NoFile
    /\ pos = 0
    /\ exec_class = "" /\ exec_endian = "" /\ exec_machine = ""
    /\ pheader_offset = 0 /\ pheader_size = 0 /\ ph_num = 0
    /\ i = 0 /\ load_address = 0 /\ virtual_address = 0
    /\ interpreter_size = 0 /\ exec_loader = <<>>
    /\ sysroot = "" /\ probes = <<>> /\ command = <<>> /\ child_status = -1
    /\ error = "" /\ exit_status = -1
    /\ p_type_reads = <<>> /\ interp_at = -1 /\ wrapped = FALSE

\* a panic, or an Err that main unwraps
Fail(kind) == pc' = "exit" /\ error' = kind /\ exit_status' = PanicStatus

\* main: the arguments, and the usage message when there is no program
Main ==
    /\ pc = "main"
    /\ \E a \in ArgLists :
          /\ args' = a
          /\ IF Len(a) < 2
             THEN pc' = "exit" /\ exit_status' = 0
             ELSE pc' = "ident" /\ UNCHANGED exit_status
    /\ UNCHANGED <<build, file, pos, ident, header, scan, exec_loader, wrapped,
                   run, error>>

\* setup_executable: open the file, read e_ident, check magic, class, endian
ReadIdent ==
    /\ pc = "ident"
    /\ \E f \in Files :
          LET d == DecodeIdent(f)
          IN  /\ file' = f
              /\ IF d.err # ""
                 THEN Fail(d.err) /\ UNCHANGED <<pos, ident>>
                 ELSE /\ pc' = "header"
                      /\ pos' = 16
                      /\ exec_class' = d.class
                      /\ exec_endian' = d.endian
                      /\ UNCHANGED <<error, exit_status>>
    /\ UNCHANGED <<build, args, header, scan, exec_loader, wrapped, run>>

\* setup_executable: the rest of the ELF header, the seek to the program
\* headers and the initial values of the scan
ReadHeader ==
    /\ pc = "header"
    /\ LET d == DecodeHeader(file, exec_class, exec_endian)
       IN  IF d.err # ""
           THEN Fail(d.err) /\ UNCHANGED <<pos, header>>
           ELSE /\ pc' = "scan"
                /\ exec_machine' = d.machine
                /\ pheader_offset' = d.phoff
                /\ pheader_size' = d.phentsize
                /\ ph_num' = d.phnum
                /\ pos' = d.phoff
                /\ UNCHANGED <<error, exit_status>>
    /\ UNCHANGED <<build, args, file, ident, scan, exec_loader, wrapped, run>>

\* setup_executable: one iteration of "while i < ph_num"
ScanStep ==
    /\ pc = "scan"
    /\ i < ph_num
    /\ LET e == ScanEntry(file, exec_class, exec_endian, pos)
           m == EntryProduct(build, i + 1, pheader_size)
       IN  /\ p_type_reads' = Append(p_type_reads, pos)
           /\ IF e.err # ""
              THEN /\ Fail(e.err)
                   /\ UNCHANGED <<pos, i, load_address, virtual_address,
                                  interpreter_size, interp_at>>
              ELSE IF e.what = "break"
              THEN /\ load_address' = e.load
                   /\ pos' = e.pos
                   /\ pc' = "extract"
                   /\ UNCHANGED <<i, virtual_address, interpreter_size,
                                  interp_at, error, exit_status>>
              ELSE /\ IF e.what = "interp"
                      THEN /\ virtual_address' = e.vaddr
                           /\ interpreter_size' = e.size
                           /\ interp_at' = pos
                      ELSE UNCHANGED <<virtual_address, interpreter_size, interp_at>>
                   /\ i' = i + 1
                   /\ UNCHANGED load_address
                   /\ IF m.err # ""
                      THEN Fail(m.err) /\ UNCHANGED pos
                      ELSE /\ pos' = pheader_offset + m.val
                           /\ UNCHANGED <<pc, error, exit_status>>
    /\ UNCHANGED <<build, args, file, ident, header, exec_loader, wrapped, run>>

\* setup_executable: after the loop, the loader string and the Executable
Extract ==
    /\ \/ pc = "extract"
       \/ pc = "scan" /\ ~(i < ph_num)
    /\ IF interpreter_size # 0
       THEN LET r == ReadLoader(file, build, pos, virtual_address, load_address,
                                interpreter_size)
            IN  /\ wrapped' = r.wrapped
                /\ interpreter_size' = r.size
                /\ pos' = r.pos
                /\ IF r.err # ""
                   THEN Fail(r.err) /\ UNCHANGED exec_loader
                   ELSE /\ exec_loader' = r.loader
                        /\ pc' = "run"
                        /\ UNCHANGED <<error, exit_status>>
       ELSE /\ pc' = "run"
            /\ UNCHANGED <<wrapped, interpreter_size, pos, exec_loader, error,
                           exit_status>>
    /\ UNCHANGED <<build, args, file, ident, header, i, load_address,
                   virtual_address, p_type_reads, interp_at, run>>

\* run_executable: pick qemu, read EMU_SYSROOT, test the loader, run qemu.
\* f and the locals of setup_executable ended with its return.
RunExecutable ==
    /\ pc = "run"
    /\ \E root \in Sysroots, static_exists \in BOOLEAN, loader_exists \in BOOLEAN,
          spawn_ok \in BOOLEAN :
          LET d == Dispatch(exec_class, exec_endian, exec_machine, exec_loader,
                            args, root, static_exists, loader_exists, spawn_ok)
          IN  /\ sysroot' = root
              /\ probes' = d.probes
              /\ command' = d.command
              /\ IF d.err # ""
                 THEN Fail(d.err)
                 ELSE pc' = "wait" /\ UNCHANGED <<error, exit_status>>
    /\ file' = NoFile /\ pos' = 0
    /\ pheader_offset' = 0 /\ pheader_size' = 0 /\ ph_num' = 0
    /\ i' = 0 /\ load_address' = 0 /\ virtual_address' = 0
    /\ interpreter_size' = 0 /\ p_type_reads' = <<>>
    /\ UNCHANGED <<build, args, ident, exec_machine, exec_loader, interp_at,
                   wrapped, child_status>>

\* qemu exits: Command::status returns, its result is dropped, run_executable
\* and main return
ChildExit ==
    /\ pc = "wait"
    /\ \E st \in ChildStatuses : child_status' = st
    /\ pc' = "exit"
    /\ exit_status' = 0
    /\ UNCHANGED <<build, args, file, pos, ident, header, scan, exec_loader,
                   wrapped, sysroot, probes, command, error>>

Next ==
    \/ Main
    \/ ReadIdent
    \/ ReadHeader
    \/ ScanStep
    \/ Extract
    \/ RunExecutable
    \/ ChildExit

Spec == Init /\ [][Next]_vars

\* ------------------------------------------------------------------ claims
\* run_executable has acted
Dispatched ==
    \/ pc = "wait"
    \/ pc = "exit" /\ child_status # -1
    \/ pc = "exit" /\ error \in {"MissingLoaderWithSysroot", "LoaderNotFoundInSysroot",
                                 "LoaderNotFound", "EmulatorSpawnFailed",
                                 "UnsupportedCombination"}

\* the architecture table of the specification
ArchTable ==
    [k \in ({"AARCH64", "X86_64"} \X {"ELFCLASS64"} \X {"Little", "Big"})
           \cup ({"ARM", "X86"} \X {"ELFCLASS32"} \X {"Little", "Big"})
           \cup ({"PPC64"} \X {"ELFCLASS64"} \X {"Little", "Big"})
           \cup ({"RISCV", "S390"} \X {"ELFCLASS32", "ELFCLASS64"} \X {"Little", "Big"})
     |-> [archName |->
            CASE k[1] = "AARCH64" -> "aarch64"
              [] k[1] = "ARM"     -> "arm"
              [] k[1] = "PPC64" /\ k[3] = "Big"    -> "ppc64"
              [] k[1] = "PPC64" /\ k[3] = "Little" -> "ppc64le"
              [] k[1] = "RISCV" /\ k[2] = "ELFCLASS32" -> "riscv32"
              [] k[1] = "RISCV" /\ k[2] = "ELFCLASS64" -> "riscv64"
              [] k[1] = "S390" /\ k[2] = "ELFCLASS32"  -> "s390"
              [] k[1] = "S390" /\ k[2] = "ELFCLASS64"  -> "s390x"
              [] k[1] = "X86"     -> "i386"
              [] k[1] = "X86_64"  -> "x86_64",
          libSuffix |-> IF k[2] = "ELFCLASS64" THEN "64" ELSE ""]]

Combo == <<exec_machine, exec_class, exec_endian>>

\* C1: once run_executable has acted on a (class, machine, endian) that is
\* not in the architecture table, the program has failed with
\* UnsupportedCombination and no command was built or run.
C1_UnlistedRejected ==
    (Dispatched /\ Combo \notin DOMAIN ArchTable)
        => (error = "UnsupportedCombination" /\ command = <<>>)

OtherEndian(e) == IF e = "Little" THEN "Big" ELSE "Little"

\* C2: for a combination of the architecture table, the command that
\* run_executable builds names the listed archName and its library path
\* (built when a sysroot is set) uses the listed libSuffix; unless the
\* machine is PPC64 they are also the ones listed for the other byte order.
C2_TableResolved ==
    (Dispatched /\ Combo \in DOMAIN ArchTable /\ command # <<>>)
        => LET other == <<exec_machine, exec_class, OtherEndian(exec_endian)>>
           IN  /\ command[1].qemu_suffix = ArchTable[Combo].archName
               /\ sysroot # "" => command[1].lib_suffix = ArchTable[Combo].libSuffix
               /\ exec_machine # "PPC64" =>
                     /\ command[1].qemu_suffix = ArchTable[other].archName
                     /\ sysroot # "" =>
                           command[1].lib_suffix = ArchTable[other].libSuffix
               /\ exec_machine = "PPC64" =>
                     command[1].qemu_suffix # ArchTable[other].archName

C2_Witness ==
    /\ Dispatched /\ command # <<>> /\ sysroot # ""
    /\ Combo = <<"PPC64", "ELFCLASS64", "Big">>
    /\ command[1].qemu_suffix = "ppc64" /\ command[1].lib_suffix = "64"

\* C3: when qemu was run and has exited, the exit status of the program is
\* the exit status of qemu.
C3_ExitStatusAdopted ==
    (pc = "exit" /\ child_status # -1) => exit_status = child_status

\* the loop over the program headers is over and the loader string is next
ScanFinished == pc = "extract" \/ (pc = "scan" /\ ~(i < ph_num))

\* C4: when the scan ends with a recorded interpreter size that is not zero
\* and a virtual address below the load bias, the next step fails at the
\* subtraction: nothing wraps, the file position does not move and no
\* Executable is returned.
C4_UnderflowRejected ==
    [][(ScanFinished /\ interpreter_size # 0
            /\ ULess(virtual_address, load_address))
        => (pc' = "exit" /\ error' = "SubtractOverflow" /\ ~wrapped' /\ pos' = pos)]_vars

HasMagic(f) == \A k \in 1..4 : ByteAt(f, k - 1) = ELF_MAGIC[k]

\* C5 as claimed: a file that was opened, has at least four bytes and does
\* not start with the ELF magic ends the program with NotELF and nothing
\* else.
C5_NotELF ==
    (file.exists /\ file.len >= 4 /\ ~HasMagic(file))
        => (pc = "exit" /\ error = "NotELF")

\* C5 as amended: such a file ends the program with NotELF when it has the
\* 16 bytes of e_ident, whatever the other bytes are, and with IOError when
\* it is shorter.
C5_NotELFWithIdent ==
    (file.exists /\ file.len >= 4 /\ ~HasMagic(file))
        => /\ pc = "exit"
           /\ error = (IF file.len >= 16 THEN "NotELF" ELSE "IOError")

C5_Witness ==
    /\ file.exists /\ file.len >= 16 /\ ~HasMagic(file)
    /\ ByteAt(file, 4) \notin DOMAIN ELFClass
    /\ pc = "exit" /\ error = "NotELF"

\* C6: when setup_executable succeeds with a recorded interpreter of n > 1
\* bytes at virtual address v and a load bias b <= v, the loader is the n-1
\* bytes of the file from offset v-b on, all of them inside the file
\* (interpreter_size holds n-1 by then).
C6_LoaderBytes ==
    (pc = "run" /\ interpreter_size > 0 /\ ~ULess(virtual_address, load_address))
        => /\ (virtual_address - load_address) + interpreter_size <= file.len
           /\ exec_loader = [k \in 1..interpreter_size |->
                               ByteAt(file, (virtual_address - load_address) + k - 1)]

\* C7: when the scan recorded no PT_INTERP entry the loader is empty, and
\* run_executable tests the existence of no loader path: with a sysroot it
\* fails with MissingLoaderWithSysroot without building a command, without
\* a sysroot it runs the command.
C7_NoInterpNoProbe ==
    /\ (pc = "run" /\ interp_at = -1) => exec_loader = <<>>
    /\ (Dispatched /\ interp_at = -1)
          => /\ exec_loader = <<>>
             /\ probes = <<>>
             /\ sysroot # "" => (error = "MissingLoaderWithSysroot" /\ command = <<>>)
             /\ sysroot = "" => (command # <<>> /\ error \in {"", "EmulatorSpawnFailed"})

C7_Witness ==
    /\ Dispatched /\ interp_at = -1 /\ sysroot # ""
    /\ error = "MissingLoaderWithSysroot" /\ probes = <<>> /\ command = <<>>

\* the program header table as elf(5) defines it: entry k starts at
\* e_phoff + k * e_phentsize
EntryOff(k) == pheader_offset + k * pheader_size
Field(o, w) == unpack(ReadExact(file, o, w).bytes, exec_endian)
EntryType(k) == Field(EntryOff(k), 4)
EntryFlags(k) == Field(EntryOff(k) + (IF exec_class = "ELFCLASS32" THEN 24 ELSE 4), 4)
EntryVaddr(k) == IF exec_class = "ELFCLASS32" THEN Field(EntryOff(k) + 8, 4)
                                              ELSE Field(EntryOff(k) + 16, 8)
Stops(k) == EntryType(k) = 1 /\ EntryFlags(k) \in {4, 5}
\* the index of the first entry that ends the scan, ph_num if there is none
FirstStop ==
    IF \E k \in 0..(ph_num - 1) : Stops(k)
    THEN CHOOSE k \in 0..(ph_num - 1) : Stops(k) /\ \A j \in 0..(k - 1) : ~Stops(j)
    ELSE ph_num

\* C8: when the scan is over, the load bias is the virtual address of the
\* first PT_LOAD entry of the table with flags 4 or 5 (0 without one), the
\* entries read are those up to it, in order, and if no PT_INTERP entry
\* comes before it the loader is empty.
C8_ScanStopsAtFirstLoad ==
    /\ (ScanFinished \/ pc = "run")
          => /\ load_address = (IF FirstStop < ph_num THEN EntryVaddr(FirstStop) ELSE 0)
             /\ p_type_reads =
                   [k \in 1..(IF FirstStop < ph_num THEN FirstStop + 1 ELSE ph_num)
                       |-> EntryOff(k - 1)]
    /\ (pc = "run" /\ \A k \in 0..(FirstStop - 1) : EntryType(k) # 3)
          => exec_loader = <<>>

\* C9: while the scan runs, the recorded virtual address and size are the
\* p_vaddr and p_filesz fields of the PT_INTERP entry recorded last.
C9_InterpFields ==
    (pc \in {"scan", "extract"} /\ interp_at # -1)
        => IF exec_class = "ELFCLASS32"
           THEN /\ virtual_address = Field(interp_at + 8, 4)
                /\ interpreter_size = Field(interp_at + 16, 4)
           ELSE /\ virtual_address = Field(interp_at + 16, 8)
                /\ interpreter_size = Field(interp_at + 32, 8)

\* C10: the k-th read of p_type is at e_phoff + k * e_phentsize, there are
\* at most e_phnum of them, and the product for an index below e_phnum
\* never ends the program.
C10_EntryOffsets ==
    /\ \A k \in 1..Len(p_type_reads) : p_type_reads[k] = EntryOff(k - 1)
    /\ Len(p_type_reads) <= ph_num
    /\ error = "MultiplyOverflow" => ~(i < ph_num)

====
